---------------------------- MODULE Spec2Model ----------------------------
(***************************************************************************)
(* Model of the domain-key crate: Key<T> construction, normalisation,      *)
(* derivation (ensure_prefix / ensure_suffix), cloning and serde support,  *)
(* over the KeyDomain implementations found in the sources and examples   *)
(* and over domains that override the trait's hooks.                       *)
(*                                                                         *)
(* Strings are sequences of one-character strings drawn from Chars.  All   *)
(* characters of Chars are ASCII, so a string's byte length (str::len) is  *)
(* the sum of len_utf8 over its characters.                                *)
(***************************************************************************)
EXTENDS Integers, Sequences, FiniteSets, TLC

(***************************************************************************)
(* Bounds of the model.                                                    *)
(***************************************************************************)
\* Longest raw input handed to a constructor or to validate_key.
MaxInputLen == 4
\* Longest prefix / suffix handed to ensure_prefix / ensure_suffix.
MaxAffixLen == 1
\* Largest number of parts handed to from_parts.
MaxParts == 2
\* Longest prefix / suffix when only construction and derivation are
\* exercised (AffixSpec).
MaxLongAffixLen == 2

\* Longest raw input handed to a constructor or to validate_key when only
\* the validation pipeline is exercised (ScanSpec).
MaxScanLen == 5

\* Largest collection handed to ValidationBuilder::validate, and largest
\* argument of ValidationBuilder::max_failures.
MaxBatch == 3
MaxFailures == 2

\* Longest string handed to utils::replace_chars.
MaxReplaceLen == 3
\* Width of usize in bits (64 on the usual targets), scaled.
UsizeBits == 8

\* Longest string handed to PositionCache::new, and largest index handed
\* to PositionCache::get_part.
MaxCacheLen == 4
MaxPartIndex == 5

\* Largest number of suggestions added to an ErrorBuilder.
MaxSuggestions == 2

\* KeyDomain::MAX_LENGTH of the modelled domains.  The sources use 64
\* (DEFAULT_MAX_KEY_LENGTH, DefaultDomain, IdentifierDomain) and 32
\* (tests::TestDomain, TenantDomain); the model scales both to one small
\* value so that inputs on both sides of the limit are enumerated.
DEFAULT_MAX_KEY_LENGTH == 3
\* MAX_LENGTH of ProductDomain (48 in examples/ecommerce.rs), scaled to a
\* value that leaves room for two inner characters between a first and a
\* last one.
ProductMaxLength == 4

(***************************************************************************)
(* Characters.                                                             *)
(***************************************************************************)
Chars == {"a", "A", "1", "_", "-", " "}

\* char::len_utf8: every character of Chars is ASCII; the strings given to
\* PositionCache also hold the two-byte character U+00E9 (e with acute
\* accent), written by its code point.
len_utf8(c) == IF c = "U+00E9" THEN 2 ELSE 1

\* The byte value of a character (u64::from(byte) in fnv1a_hash).
ByteOf(c) ==
    CASE c = "a" -> 97
      [] c = "A" -> 65
      [] c = "1" -> 49
      [] c = "_" -> 95
      [] c = "-" -> 45
      [] c = " " -> 32

is_ascii_uppercase(c) == c = "A"
is_ascii_alphabetic(c) == c \in {"a", "A"}
is_ascii_alphanumeric(c) == c \in {"a", "A", "1"}
is_whitespace(c) == c = " "
char_to_ascii_lowercase(c) == IF c = "A" THEN "a" ELSE c

\* key.rs is_ascii_allowed_fast
is_ascii_allowed_fast(c) ==
    is_ascii_alphanumeric(c) \/ c = "_" \/ c = "-" \/ c = "."

(***************************************************************************)
(* String helpers (core::str).                                             *)
(***************************************************************************)
RECURSIVE StrLen(_)
StrLen(s) == IF s = <<>> THEN 0 ELSE len_utf8(Head(s)) + StrLen(Tail(s))

RECURSIVE trim_start(_)
trim_start(s) ==
    IF s = <<>> THEN s
    ELSE IF is_whitespace(Head(s)) THEN trim_start(Tail(s)) ELSE s

RECURSIVE trim_end(_)
trim_end(s) ==
    IF s = <<>> THEN s
    ELSE IF is_whitespace(s[Len(s)]) THEN trim_end(SubSeq(s, 1, Len(s) - 1))
    ELSE s

trim(s) == trim_end(trim_start(s))

to_ascii_lowercase(s) == [i \in 1..Len(s) |-> char_to_ascii_lowercase(s[i])]

\* str::replace(from, to) for single characters
replace(s, from, to) == [i \in 1..Len(s) |-> IF s[i] = from THEN to ELSE s[i]]

contains_char(s, c) == \E i \in 1..Len(s) : s[i] = c

starts_with(s, p) == Len(p) <= Len(s) /\ SubSeq(s, 1, Len(p)) = p

ends_with(s, p) ==
    Len(p) <= Len(s) /\ SubSeq(s, Len(s) - Len(p) + 1, Len(s)) = p

\* [&str]::join
RECURSIVE join(_, _)
join(parts, delimiter) ==
    IF parts = <<>> THEN <<>>
    ELSE IF Len(parts) = 1 THEN parts[1]
    ELSE parts[1] \o delimiter \o join(Tail(parts), delimiter)

\* All strings over Chars of length at most n.
StringsUpTo(n) == UNION {[1..k -> Chars] : k \in 0..n}

(***************************************************************************)
(* KeyParseError (error.rs) and Result values.                             *)
(***************************************************************************)
NoErr ==
    [kind |-> "none", character |-> "", position |-> 0, max_length |-> 0,
     actual_length |-> 0, reason |-> "", domain |-> "", message |-> "",
     code |-> 0]

Empty == [NoErr EXCEPT !.kind = "Empty"]

InvalidCharacter(c, pos) ==
    [NoErr EXCEPT !.kind = "InvalidCharacter", !.character = c, !.position = pos]

TooLong(max, actual) ==
    [NoErr EXCEPT !.kind = "TooLong", !.max_length = max, !.actual_length = actual]

InvalidStructure(reason) ==
    [NoErr EXCEPT !.kind = "InvalidStructure", !.reason = reason]

\* KeyParseError::domain_error
domain_error(domain, message) ==
    [NoErr EXCEPT !.kind = "DomainValidation", !.domain = domain, !.message = message]

\* KeyParseError::domain_error_generic
domain_error_generic(message) ==
    [NoErr EXCEPT !.kind = "DomainValidation", !.domain = "unknown",
                  !.message = message]

\* KeyParseError::custom
custom(code, message) ==
    [NoErr EXCEPT !.kind = "Custom", !.code = code, !.message = message]

\* enum ErrorCategory
ErrorCategories == {"Length", "Character", "Structure", "Domain", "Custom"}

\* KeyParseError::code reporting a Custom error under the domain's base code
code_custom_as_domain(e) ==
    CASE e.kind = "Empty" -> 1001
      [] e.kind = "InvalidCharacter" -> 1002
      [] e.kind = "TooLong" -> 1003
      [] e.kind = "InvalidStructure" -> 1004
      [] e.kind = "DomainValidation" -> 2000
      [] e.kind = "Custom" -> 2000

\* KeyParseError::code
code(e) ==
    CASE e.kind = "Empty" -> 1001
      [] e.kind = "InvalidCharacter" -> 1002
      [] e.kind = "TooLong" -> 1003
      [] e.kind = "InvalidStructure" -> 1004
      [] e.kind = "DomainValidation" -> 2000
      [] e.kind = "Custom" -> e.code

\* KeyParseError::category
category(e) ==
    CASE e.kind \in {"Empty", "TooLong"} -> "Length"
      [] e.kind = "InvalidCharacter" -> "Character"
      [] e.kind = "InvalidStructure" -> "Structure"
      [] e.kind = "DomainValidation" -> "Domain"
      [] e.kind = "Custom" -> "Custom"

\* KeyParseError::is_recoverable
is_recoverable(e) ==
    CASE e.kind \in {"Empty", "InvalidCharacter", "TooLong", "InvalidStructure",
                     "DomainValidation"} -> TRUE
      [] e.kind = "Custom" -> FALSE

\* The value of the key field of a Result that carries no key.
NoKey == [inner |-> <<>>, hash |-> 0, length |-> 0]

Ok(k) == [ok |-> TRUE, key |-> k, err |-> NoErr]
OkUnit == Ok(NoKey)
Err(e) == [ok |-> FALSE, key |-> NoKey, err |-> e]


(***************************************************************************)
(* The KeyDomain implementations of the sources (domain.rs, key.rs tests). *)
(* A domain is a type parameter; the model names it by its DOMAIN_NAME.    *)
(***************************************************************************)
DefaultDomain == "default"
IdentifierDomain == "identifier"
TestDomain == "test"

Domains == {DefaultDomain, IdentifierDomain, TestDomain}

\* The domains of the examples: ProductDomain (examples/ecommerce.rs) and
\* TenantDomain (examples/multi_tenant.rs), whose required prefix "tenant_"
\* is scaled to TenantPrefix.
ProductDomain == "product"
TenantDomain == "tenant"
TenantPrefix == <<"a", "_">>

\* KeyDomain leaves min_length and validate_domain_rules to the implementer.
\* Four implementations stand for what a user of the crate may write:
\*   MinLengthDomain   overrides min_length ("some domains might require a
\*                     minimum length greater than 1", domain.rs)
\*   GenericHookDomain builds its hook's error with domain_error_generic,
\*                     which names the domain "unknown"
\*   CustomHookDomain  returns KeyParseError::custom from its hook, as the
\*                     checker custom_check of validation.rs does; its
\*                     required prefix "custom_" is scaled to CustomPrefix
\*   CaseRuleDomain    is case-sensitive, as IdentifierDomain is, and has a
\*                     hook that requires an upper-case first letter
MinLengthDomain == "min_length"
GenericHookDomain == "generic_hook"
CustomHookDomain == "custom_hook"
CustomPrefix == <<"a">>
CaseRuleDomain == "case_rule"

\* The domains under which only the validation pipeline is exercised, and
\* the domains with a hook of the user's own.
ScanDomains ==
    {IdentifierDomain, ProductDomain, TenantDomain, MinLengthDomain,
     GenericHookDomain, CustomHookDomain, CaseRuleDomain}
HookDomains == {GenericHookDomain, CustomHookDomain}

DOMAIN_NAME(D) == D

\* KeyDomain::MAX_LENGTH (scaled, see DEFAULT_MAX_KEY_LENGTH)
MAX_LENGTH(D) ==
    IF D = ProductDomain THEN ProductMaxLength ELSE DEFAULT_MAX_KEY_LENGTH

\* KeyDomain::CASE_INSENSITIVE: true by default, false for IdentifierDomain
\* (and for CaseRuleDomain)
CASE_INSENSITIVE(D) == D \notin {IdentifierDomain, CaseRuleDomain}

\* KeyDomain::min_length: 1 unless the domain overrides it
min_length(D) == IF D = MinLengthDomain THEN 2 ELSE 1

\* KeyDomain::allowed_characters
allowed_characters(D, c) ==
    CASE D = IdentifierDomain -> is_ascii_alphanumeric(c) \/ c = "_"
      [] D = TestDomain -> is_ascii_alphanumeric(c) \/ c = "_" \/ c = "-"
      [] OTHER -> is_ascii_alphanumeric(c) \/ c = "_" \/ c = "-" \/ c = "."

\* KeyDomain::allowed_start_character
allowed_start_character(D, c) ==
    CASE D = IdentifierDomain -> is_ascii_alphabetic(c) \/ c = "_"
      [] OTHER -> allowed_characters(D, c) /\ c # "_" /\ c # "-" /\ c # "."

\* KeyDomain::allowed_end_character
allowed_end_character(D, c) ==
    allowed_characters(D, c) /\ c # "_" /\ c # "-" /\ c # "."

\* KeyDomain::allowed_consecutive_characters
allowed_consecutive_characters(D, prev, curr) ==
    ~(prev = curr /\ (prev = "_" \/ prev = "-" \/ prev = "."))

\* normalize_domain when no domain overrides the default
normalize_domain_identity(D, key) == key

\* KeyDomain::normalize_domain
normalize_domain(D, key) ==
    CASE D = TestDomain ->
            IF contains_char(key, "-") THEN replace(key, "-", "_") ELSE key
      [] D = ProductDomain ->
            IF \E i \in 1..Len(key) :
                    is_ascii_uppercase(key[i]) \/ key[i] = "-" \/ key[i] = " "
            THEN replace(replace(to_ascii_lowercase(key), "-", "_"), " ", "_")
            ELSE key
      [] D = TenantDomain ->
            IF \E i \in 1..Len(key) : is_ascii_uppercase(key[i])
            THEN to_ascii_lowercase(key)
            ELSE key
      [] OTHER -> key

\* KeyDomain::validate_domain_rules
validate_domain_rules(D, key) ==
    CASE D = IdentifierDomain ->
            IF key # <<>> /\ ~allowed_start_character(D, Head(key))
            THEN Err(domain_error(DOMAIN_NAME(D),
                     "Identifier must start with a letter or underscore"))
            ELSE OkUnit
      [] D = TestDomain ->
            IF starts_with(key, <<"i", "n", "v", "a", "l", "i", "d", "_">>)
            THEN Err(domain_error(DOMAIN_NAME(D),
                     "Keys cannot start with 'invalid_'"))
            ELSE OkUnit
      [] D = TenantDomain ->
            LET suffix == SubSeq(key, Len(TenantPrefix) + 1, Len(key)) IN
            IF ~starts_with(key, TenantPrefix)
            THEN Err(domain_error(DOMAIN_NAME(D),
                     "Tenant keys must start with 'tenant_'"))
            ELSE IF suffix = <<>>
                    \/ \E i \in 1..Len(suffix) :
                          ~(is_ascii_alphanumeric(suffix[i]) \/ suffix[i] = "_")
            THEN Err(domain_error(DOMAIN_NAME(D),
                     "Tenant suffix must be alphanumeric with underscores"))
            ELSE OkUnit
      [] D = GenericHookDomain ->
            IF key # <<>> /\ ~is_ascii_alphabetic(Head(key))
            THEN Err(domain_error_generic("Must start with a letter"))
            ELSE OkUnit
      [] D = CustomHookDomain ->
            IF starts_with(key, CustomPrefix) THEN OkUnit
            ELSE Err(custom(9999, "Must start with custom_"))
      [] D = CaseRuleDomain ->
            IF key # <<>> /\ ~is_ascii_uppercase(Head(key))
            THEN Err(domain_error(DOMAIN_NAME(D),
                     "Must start with an upper-case letter"))
            ELSE OkUnit
      [] OTHER -> OkUnit

(***************************************************************************)
(* Hashing.  compute_hash returns 0 for the empty string and otherwise     *)
(* the configured 64-bit hash of the bytes; the model follows the no_std   *)
(* default, fnv1a_hash, and keeps its low HashBits bits: xor with a byte   *)
(* and wrapping multiplication both commute with that truncation, so the   *)
(* model's value is the low HashBits bits of the 64-bit FNV-1a hash.       *)
(***************************************************************************)
HashBits == 16
HashModulus == 2 ^ HashBits
\* The low bits of FNV_OFFSET_BASIS = 0xcbf2_9ce4_8422_2325 (0x2325) and of
\* FNV_PRIME = 0x0100_0000_01b3 (0x01b3)
FNV_OFFSET_BASIS == 8997
FNV_PRIME == 435

RECURSIVE BitXor(_, _, _)
BitXor(a, b, bits) ==
    IF bits = 0 THEN 0
    ELSE (((a % 2) + (b % 2)) % 2) + 2 * BitXor(a \div 2, b \div 2, bits - 1)

RECURSIVE fnv1a_from(_, _)
fnv1a_from(hash, bytes) ==
    IF bytes = <<>> THEN hash
    ELSE fnv1a_from(
            ((((hash \div 256) * 256) + BitXor(hash % 256, ByteOf(Head(bytes)), 8))
                * FNV_PRIME) % HashModulus,
            Tail(bytes))

fnv1a_hash(bytes) == fnv1a_from(FNV_OFFSET_BASIS, bytes)

compute_hash(key) == IF key = <<>> THEN 0 ELSE fnv1a_hash(key)

(***************************************************************************)
(* The validation pipeline (key.rs, helper methods).                       *)
(***************************************************************************)
\* fix_domain_error returning the hook's error as it is
fix_domain_error_keep(D, e) == e

\* Key::fix_domain_error
fix_domain_error(D, e) ==
    IF e.kind = "DomainValidation"
    THEN domain_error(DOMAIN_NAME(D), e.message)
    ELSE e

\* The loop and the final check of validate_fast, from the i-th character
\* on; char_indices yields byte offsets.
RECURSIVE validate_fast_rest(_, _, _)
validate_fast_rest(D, key, i) ==
    IF i > Len(key)
    THEN IF key # <<>> /\ ~allowed_end_character(D, key[Len(key)])
         THEN Err(InvalidStructure("invalid end character"))
         ELSE OkUnit
    ELSE IF ~(is_ascii_allowed_fast(key[i]) \/ allowed_characters(D, key[i]))
    THEN Err(InvalidCharacter(key[i], StrLen(SubSeq(key, 1, i - 1))))
    ELSE IF ~allowed_consecutive_characters(D, key[i - 1], key[i])
    THEN Err(InvalidStructure("consecutive characters not allowed"))
    ELSE validate_fast_rest(D, key, i + 1)

\* validate_fast checking the last character before it scans
validate_fast_end_first(D, key) ==
    IF key # <<>> /\ ~allowed_end_character(D, key[Len(key)])
    THEN Err(InvalidStructure("invalid end character"))
    ELSE IF key # <<>>
       /\ ~(is_ascii_allowed_fast(key[1]) \/ allowed_start_character(D, key[1]))
    THEN Err(InvalidCharacter(key[1], 0))
    ELSE validate_fast_rest(D, key, 2)

\* Key::validate_fast
validate_fast(D, key) ==
    IF key # <<>>
       /\ ~(is_ascii_allowed_fast(key[1]) \/ allowed_start_character(D, key[1]))
    THEN Err(InvalidCharacter(key[1], 0))
    ELSE validate_fast_rest(D, key, 2)

\* validate_common without its check for an empty trimmed string
validate_common_no_empty_check(D, key) ==
    LET trimmed == trim(key) IN
    IF StrLen(trimmed) > MAX_LENGTH(D)
    THEN Err(TooLong(MAX_LENGTH(D), StrLen(trimmed)))
    ELSE IF StrLen(trimmed) < min_length(D)
    THEN Err(TooLong(min_length(D), StrLen(trimmed)))
    ELSE validate_fast(D, trimmed)

\* validate_common rejecting a trimmed length equal to MAX_LENGTH
validate_common_off_by_one(D, key) ==
    LET trimmed == trim(key) IN
    IF trimmed = <<>> THEN Err(Empty)
    ELSE IF StrLen(trimmed) >= MAX_LENGTH(D)
    THEN Err(TooLong(MAX_LENGTH(D), StrLen(trimmed)))
    ELSE IF StrLen(trimmed) < min_length(D)
    THEN Err(TooLong(min_length(D), StrLen(trimmed)))
    ELSE validate_fast(D, trimmed)

\* validate_common running the character scan before the length checks
validate_common_scan_first(D, key) ==
    LET trimmed == trim(key) IN
    IF trimmed = <<>> THEN Err(Empty)
    ELSE IF ~validate_fast(D, trimmed).ok THEN validate_fast(D, trimmed)
    ELSE IF StrLen(trimmed) > MAX_LENGTH(D)
    THEN Err(TooLong(MAX_LENGTH(D), StrLen(trimmed)))
    ELSE IF StrLen(trimmed) < min_length(D)
    THEN Err(TooLong(min_length(D), StrLen(trimmed)))
    ELSE OkUnit

\* Key::validate_common
validate_common(D, key) ==
    LET trimmed == trim(key) IN
    IF trimmed = <<>> THEN Err(Empty)
    ELSE IF StrLen(trimmed) > MAX_LENGTH(D)
    THEN Err(TooLong(MAX_LENGTH(D), StrLen(trimmed)))
    ELSE IF StrLen(trimmed) < min_length(D)
    THEN Err(TooLong(min_length(D), StrLen(trimmed)))
    ELSE validate_fast(D, trimmed)

\* Key::normalize
normalize(D, key) ==
    LET trimmed == trim(key)
        needs_lowercase ==
            CASE_INSENSITIVE(D)
            /\ \E i \in 1..Len(trimmed) : is_ascii_uppercase(trimmed[i])
        lowercased ==
            IF needs_lowercase THEN to_ascii_lowercase(trimmed) ELSE trimmed
    IN normalize_domain(D, lowercased)

\* Key::normalize_owned
normalize_owned(D, key) ==
    LET trimmed == trim(key) IN
    normalize_domain(D, to_ascii_lowercase(trimmed))

\* The struct literal Key { inner, hash, length, _marker }
MkKey(inner, hash, length) == [inner |-> inner, hash |-> hash, length |-> length]

(***************************************************************************)
(* Constructors (key.rs, core methods).                                    *)
(***************************************************************************)
\* Key::new_optimized (Key::new delegates to it)
new_optimized(D, key) ==
    LET common == validate_common(D, key)
        normalized == normalize(D, key)
        rules == validate_domain_rules(D, normalized)
    IN IF ~common.ok THEN common
       ELSE IF ~rules.ok THEN Err(fix_domain_error(D, rules.err))
       ELSE Ok(MkKey(normalized, compute_hash(normalized), StrLen(normalized)))

new(D, key) == new_optimized(D, key)

\* Key::from_string
from_string(D, key) ==
    LET common == validate_common(D, key)
        normalized == normalize_owned(D, key)
        rules == validate_domain_rules(D, normalized)
    IN IF ~common.ok THEN common
       ELSE IF ~rules.ok THEN Err(fix_domain_error(D, rules.err))
       ELSE Ok(MkKey(normalized, compute_hash(normalized), StrLen(normalized)))

\* from_parts joining its parts without looking for an empty one
from_parts_no_part_check(D, parts, delimiter) ==
    IF parts = <<>> THEN Err(Empty)
    ELSE IF join(parts, delimiter) = <<>> THEN Err(Empty)
    ELSE from_string(D, join(parts, delimiter))

\* Key::from_parts
from_parts(D, parts, delimiter) ==
    IF parts = <<>> THEN Err(Empty)
    ELSE IF \E i \in 1..Len(parts) : parts[i] = <<>>
    THEN Err(InvalidStructure("Parts cannot contain empty strings"))
    ELSE IF join(parts, delimiter) = <<>> THEN Err(Empty)
    ELSE from_string(D, join(parts, delimiter))

\* from_static_unchecked leaving the cached hash at zero
from_static_unchecked_no_hash(key) == MkKey(key, 0, StrLen(key))

\* Key::from_static_unchecked
from_static_unchecked(key) == MkKey(key, compute_hash(key), StrLen(key))

\* Key::try_from_static
try_from_static(D, key) ==
    LET validated == new(D, key) IN
    IF ~validated.ok THEN validated
    ELSE Ok(from_static_unchecked(key))

\* validation.rs validate_key
validate_key(D, key) ==
    LET common == validate_common(D, key)
        normalized == normalize(D, key)
    IN IF ~common.ok THEN common
       ELSE validate_domain_rules(D, normalized)

(***************************************************************************)
(* Operations on a key (key.rs).                                           *)
(***************************************************************************)
as_str(k) == k.inner
len(k) == k.length
hash(k) == k.hash

\* derive(PartialEq) on Key: field by field (the marker has one value)
eq(a, b) == a.inner = b.inner /\ a.hash = b.hash /\ a.length = b.length

\* impl Hash for Key: the value written by state.write_u64(self.hash)
hash_write(k) == k.hash

\* impl Clone for Key
clone(k) == MkKey(k.inner, k.hash, k.length)

\* utils::add_prefix_optimized / add_suffix_optimized
add_prefix_optimized(key, prefix) == prefix \o key
add_suffix_optimized(key, suffix) == key \o suffix

\* The loop over the characters of the added substring in ensure_prefix /
\* ensure_suffix: the index of the first character that allowed_characters
\* rejects (chars().enumerate() counts characters), or 0 when there is none.
RECURSIVE FirstRejected(_, _, _)
FirstRejected(D, affix, i) ==
    IF i > Len(affix) THEN 0
    ELSE IF ~allowed_characters(D, affix[i]) THEN i
    ELSE FirstRejected(D, affix, i + 1)

\* ensure_prefix without its early return for a key that has the prefix
ensure_prefix_always_adds(D, self, prefix) ==
    LET new_len == StrLen(prefix) + len(self)
        result == add_prefix_optimized(self.inner, prefix)
        bad == FirstRejected(D, prefix, 1)
        rules == validate_domain_rules(D, result)
    IN IF new_len > MAX_LENGTH(D) THEN Err(TooLong(MAX_LENGTH(D), new_len))
       ELSE IF bad # 0 THEN Err(InvalidCharacter(prefix[bad], bad - 1))
       ELSE IF ~rules.ok THEN Err(fix_domain_error(D, rules.err))
       ELSE Ok(MkKey(result, compute_hash(result), new_len))

\* ensure_prefix checking the added characters before the combined length
ensure_prefix_chars_first(D, self, prefix) ==
    LET new_len == StrLen(prefix) + len(self)
        result == add_prefix_optimized(self.inner, prefix)
        bad == FirstRejected(D, prefix, 1)
        rules == validate_domain_rules(D, result)
    IN IF starts_with(self.inner, prefix) THEN Ok(clone(self))
       ELSE IF bad # 0 THEN Err(InvalidCharacter(prefix[bad], bad - 1))
       ELSE IF new_len > MAX_LENGTH(D) THEN Err(TooLong(MAX_LENGTH(D), new_len))
       ELSE IF ~rules.ok THEN Err(fix_domain_error(D, rules.err))
       ELSE Ok(MkKey(result, compute_hash(result), new_len))

\* Key::ensure_prefix
ensure_prefix(D, self, prefix) ==
    LET new_len == StrLen(prefix) + len(self)
        result == add_prefix_optimized(self.inner, prefix)
        bad == FirstRejected(D, prefix, 1)
        rules == validate_domain_rules(D, result)
    IN IF starts_with(self.inner, prefix) THEN Ok(clone(self))
       ELSE IF new_len > MAX_LENGTH(D) THEN Err(TooLong(MAX_LENGTH(D), new_len))
       ELSE IF bad # 0 THEN Err(InvalidCharacter(prefix[bad], bad - 1))
       ELSE IF ~rules.ok THEN Err(fix_domain_error(D, rules.err))
       ELSE Ok(MkKey(result, compute_hash(result), new_len))

\* ensure_suffix storing the receiver's cached length in the new key
ensure_suffix_stale_length(D, self, suffix) ==
    LET new_len == len(self) + StrLen(suffix)
        result == add_suffix_optimized(self.inner, suffix)
        bad == FirstRejected(D, suffix, 1)
        rules == validate_domain_rules(D, result)
    IN IF ends_with(self.inner, suffix) THEN Ok(clone(self))
       ELSE IF new_len > MAX_LENGTH(D) THEN Err(TooLong(MAX_LENGTH(D), new_len))
       ELSE IF bad # 0 THEN Err(InvalidCharacter(suffix[bad], len(self) + bad - 1))
       ELSE IF ~rules.ok THEN Err(fix_domain_error(D, rules.err))
       ELSE Ok(MkKey(result, compute_hash(result), len(self)))

\* Key::ensure_suffix
ensure_suffix(D, self, suffix) ==
    LET new_len == len(self) + StrLen(suffix)
        result == add_suffix_optimized(self.inner, suffix)
        bad == FirstRejected(D, suffix, 1)
        rules == validate_domain_rules(D, result)
    IN IF ends_with(self.inner, suffix) THEN Ok(clone(self))
       ELSE IF new_len > MAX_LENGTH(D) THEN Err(TooLong(MAX_LENGTH(D), new_len))
       ELSE IF bad # 0 THEN Err(InvalidCharacter(suffix[bad], len(self) + bad - 1))
       ELSE IF ~rules.ok THEN Err(fix_domain_error(D, rules.err))
       ELSE Ok(MkKey(result, compute_hash(result), new_len))

\* impl Serialize for Key: the text only
serialize(k) == k.inner

\* impl Deserialize for Key: Key::new for human-readable formats,
\* Key::from_string for binary formats
deserialize(D, human_readable, s) ==
    IF human_readable THEN new(D, s) ELSE from_string(D, s)

(***************************************************************************)
(* Option values.                                                          *)
(***************************************************************************)
Some(v) == [some |-> TRUE, value |-> v]
\* None of an Option whose values have the form of zero
NoneOf(zero) == [some |-> FALSE, value |-> zero]

(***************************************************************************)
(* ValidationBuilder and ValidationResult (validation.rs).                 *)
(***************************************************************************)
\* ValidationBuilder::new.  custom_validator is an Option of a function
\* pointer; the one validator of the sources is tests::custom_check, so the
\* field records whether it is set.
ValidationBuilder_new ==
    [allow_empty_collection |-> FALSE, max_failures |-> NoneOf(0),
     stop_on_first_error |-> FALSE, custom_validator |-> FALSE]

\* validation.rs tests::custom_check: the rule that CustomHookDomain uses
\* as its hook
custom_check(key_str) == validate_domain_rules(CustomHookDomain, key_str)

\* The body of the loop of validate after its two break tests: validate_key
\* and then the custom validator, if one is set.
validate_item(D, self, key_str) ==
    LET checked == validate_key(D, key_str) IN
    IF checked.ok /\ self.custom_validator THEN custom_check(key_str)
    ELSE checked

\* The loop of ValidationBuilder::validate over the remaining keys, and the
\* ValidationResult built after it.  examined lists the items handed to
\* validate_key; it is no field of ValidationResult.
RECURSIVE validate_loop(_, _, _, _, _, _)
validate_loop(D, self, keys, valid, errors, examined) ==
    IF \/ keys = <<>>
       \/ self.max_failures.some /\ Len(errors) >= self.max_failures.value
       \/ self.stop_on_first_error /\ errors # <<>>
    THEN [total_processed |-> Len(valid) + Len(errors), valid |-> valid,
          errors |-> errors, examined |-> examined]
    ELSE LET key_str == Head(keys)
             checked == validate_item(D, self, key_str)
         IN validate_loop(D, self, Tail(keys),
                IF checked.ok THEN Append(valid, key_str) ELSE valid,
                IF checked.ok THEN errors
                ELSE Append(errors, <<key_str, checked.err>>),
                Append(examined, key_str))

\* ValidationBuilder::validate
validate(D, self, keys) ==
    IF keys = <<>> /\ ~self.allow_empty_collection
    THEN [total_processed |-> 0, valid |-> <<>>,
          errors |-> << <<<<>>, Empty>> >>, examined |-> <<>>]
    ELSE validate_loop(D, self, keys, <<>>, <<>>, <<>>)

(***************************************************************************)
(* ErrorBuilder (error.rs).  A message is the sequence of the pieces of    *)
(* text that format! puts together.                                        *)
(***************************************************************************)
\* ErrorBuilder::build
build(self) ==
    LET message ==
            IF self.context.some
            THEN self.message \o <<" (Context: ">> \o self.context.value \o <<")">>
            ELSE self.message
    IN IF self.code.some THEN custom(self.code.value, message)
       ELSE domain_error_generic(message)

(***************************************************************************)
(* utils::replace_chars.  The result is a Cow: owned tells Owned from       *)
(* Borrowed, and panicked stands for a call that did not return.           *)
(***************************************************************************)
\* The loop of replace_chars from the i-th character of s on.  At the first
\* replacement it computes
\*     pos = s.len() - s.chars().as_str().len() - c.len_utf8()
\* where s.chars() is a new iterator, whose as_str() is all of s.  A build
\* with overflow checks panics when a subtraction goes below zero; a build
\* without them wraps, and the slice s[..pos] panics when pos is beyond the
\* end of s.
RECURSIVE replace_chars_loop(_, _, _, _, _, _)
replace_chars_loop(s, replacer, overflow_checks, i, changed, result) ==
    IF i > Len(s)
    THEN [panicked |-> FALSE, owned |-> changed,
          value |-> IF changed THEN result ELSE s]
    ELSE IF replacer[s[i]].some /\ ~changed
    THEN LET difference == (StrLen(s) - StrLen(s)) - len_utf8(s[i])
             pos == difference % (2 ^ UsizeBits)
         IN IF (difference < 0 /\ overflow_checks) \/ pos > StrLen(s)
            THEN [panicked |-> TRUE, owned |-> FALSE, value |-> <<>>]
            ELSE replace_chars_loop(s, replacer, overflow_checks, i + 1, TRUE,
                    Append(SubSeq(s, 1, pos), replacer[s[i]].value))
    ELSE IF replacer[s[i]].some
    THEN replace_chars_loop(s, replacer, overflow_checks, i + 1, changed,
            Append(result, replacer[s[i]].value))
    ELSE replace_chars_loop(s, replacer, overflow_checks, i + 1, changed,
            IF changed THEN Append(result, s[i]) ELSE result)

\* utils::replace_chars
replace_chars(s, replacer, overflow_checks) ==
    replace_chars_loop(s, replacer, overflow_checks, 1, FALSE, <<>>)

(***************************************************************************)
(* utils::PositionCache.  Offsets are byte offsets into a UTF-8 string.    *)
(***************************************************************************)
\* The byte range s[start..end] of a str: it panics unless both offsets lie
\* on character boundaries of s, in order.
slice(s, start, end) ==
    LET boundaries == {k \in 0..Len(s) : StrLen(SubSeq(s, 1, k)) \in {start, end}}
        first == CHOOSE k \in boundaries : StrLen(SubSeq(s, 1, k)) = start
        last_ == CHOOSE k \in boundaries : StrLen(SubSeq(s, 1, k)) = end
    IN IF /\ start <= end
          /\ \E k \in boundaries : StrLen(SubSeq(s, 1, k)) = start
          /\ \E k \in boundaries : StrLen(SubSeq(s, 1, k)) = end
       THEN [panicked |-> FALSE, some |-> TRUE, value |-> SubSeq(s, first + 1, last_)]
       ELSE [panicked |-> TRUE, some |-> FALSE, value |-> <<>>]

\* str::split(delimiter), as a sequence
RECURSIVE split(_, _)
split(s, delimiter) ==
    IF ~contains_char(s, delimiter) THEN <<s>>
    ELSE LET i == CHOOSE j \in 1..Len(s) :
                     s[j] = delimiter /\ \A k \in 1..(j - 1) : s[k] # delimiter
         IN <<SubSeq(s, 1, i - 1)>> \o split(SubSeq(s, i + 1, Len(s)), delimiter)

\* PositionCache::new: char_indices yields the byte offset of each character
PositionCache_new(s, delimiter) ==
    LET found == SelectSeq([i \in 1..Len(s) |-> i], LAMBDA i : s[i] = delimiter) IN
    [delimiter |-> delimiter,
     positions |-> [k \in 1..Len(found) |-> StrLen(SubSeq(s, 1, found[k] - 1))],
     cached_for |-> s]

\* PositionCache::part_count
part_count(self) == Len(self.positions) + 1

\* PositionCache::get_part (n counts from 0; positions is indexed from 1)
get_part(self, n) ==
    LET s == self.cached_for
        positions == self.positions
    IN CASE n = 0 ->
              IF positions # <<>> THEN slice(s, 0, positions[1])
              ELSE [panicked |-> FALSE, some |-> TRUE, value |-> s]
         [] n # 0 /\ n = Len(positions) ->
              slice(s, positions[Len(positions)] + 1, StrLen(s))
         [] n # 0 /\ n < Len(positions) ->
              slice(s, positions[n] + 1, positions[n + 1])
         [] OTHER -> [panicked |-> FALSE, some |-> FALSE, value |-> <<>>]

(***************************************************************************)
(* The state machine: a program that, for one domain T, calls one          *)
(* constructor and then clones, derives and (de)serialises the key it      *)
(* holds.  Keys are immutable values: every call returns its result in     *)
(* last and leaves the held key alone; the program then either continues   *)
(* with the returned key (Adopt) or drops the result (Discard) before its  *)
(* next call.                                                              *)
(*   dom    - the domain parameter T of Key<T>                             *)
(*   key    - the key the program holds (NoKey while it holds none)        *)
(*   origin - the constructor that made the held key, "none" if none       *)
(*   last   - the last call: its name, arguments, receiver and result      *)
(***************************************************************************)
VARIABLES dom, key, origin, last

\* The utility of the crate that a program works with next to its keys:
\*   util - NoUtil, or the utility object the program made (its struct, the
\*          arguments of the last call on it and what the call returned)
VARIABLES util

vars == <<dom, key, origin, last, util>>

NoUtil == [kind |-> "none"]

\* The strings of length at most one: the parts and delimiters of from_parts
Short == StringsUpTo(1)

Inputs == StringsUpTo(MaxInputLen)
Affixes == StringsUpTo(MaxAffixLen)
Parts == UNION {[1..n -> Short] : n \in 0..MaxParts}
Delimiters == Short

NoCall ==
    [op |-> "none", input |-> <<>>, parts |-> <<>>, delimiter |-> <<>>,
     recv |-> NoKey, res |-> OkUnit, text |-> <<>>]

Call(op, input, recv, res) ==
    [NoCall EXCEPT !.op = op, !.input = input, !.recv = recv, !.res = res]

Constructors ==
    {"new", "from_string", "from_parts", "try_from_static", "from_static_unchecked"}

Derivations == {"clone", "ensure_prefix", "ensure_suffix"}

\* The program holds a key and is between two calls.
Idle == origin # "none" /\ last.op = "idle"

\* The program has made no call yet.
AtStart == last.op = "none"

Init ==
    /\ dom \in Domains
    /\ key = NoKey
    /\ origin = "none"
    /\ last = NoCall
    /\ util = NoUtil

New(s) ==
    /\ AtStart
    /\ last' = Call("new", s, NoKey, new(dom, s))
    /\ UNCHANGED <<dom, key, origin, util>>

FromString(s) ==
    /\ AtStart
    /\ last' = Call("from_string", s, NoKey, from_string(dom, s))
    /\ UNCHANGED <<dom, key, origin, util>>

FromParts(parts, delimiter) ==
    /\ AtStart
    /\ last' = [Call("from_parts", <<>>, NoKey, from_parts(dom, parts, delimiter))
                   EXCEPT !.parts = parts, !.delimiter = delimiter]
    /\ UNCHANGED <<dom, key, origin, util>>

TryFromStatic(s) ==
    /\ AtStart
    /\ last' = Call("try_from_static", s, NoKey, try_from_static(dom, s))
    /\ UNCHANGED <<dom, key, origin, util>>

\* from_static_unchecked is called under its documented safety contract:
\* "the caller must ensure that the static string follows all validation
\* rules for the domain".
FromStaticUnchecked(s) ==
    /\ AtStart
    /\ validate_key(dom, s).ok
    /\ last' = Call("from_static_unchecked", s, NoKey, Ok(from_static_unchecked(s)))
    /\ UNCHANGED <<dom, key, origin, util>>

ValidateKey(s) ==
    /\ AtStart
    /\ last' = Call("validate_key", s, NoKey, validate_key(dom, s))
    /\ UNCHANGED <<dom, key, origin, util>>

\* The program goes on with the key returned by the last call.
Adopt ==
    /\ last.op \in Constructors \cup Derivations
    /\ last.res.ok
    /\ key' = last.res.key
    /\ origin' = IF last.op \in Constructors THEN last.op ELSE origin
    /\ last' = [NoCall EXCEPT !.op = "idle"]
    /\ UNCHANGED <<dom, util>>

\* The program drops the result of the last call and keeps the key it holds.
Discard ==
    /\ origin # "none"
    /\ last.op \notin {"none", "idle", "serialize"}
    /\ last' = [NoCall EXCEPT !.op = "idle"]
    /\ UNCHANGED <<dom, key, origin, util>>

Clone ==
    /\ Idle
    /\ last' = Call("clone", <<>>, key, Ok(clone(key)))
    /\ UNCHANGED <<dom, key, origin, util>>

EnsurePrefix(p) ==
    /\ Idle
    /\ last' = Call("ensure_prefix", p, key, ensure_prefix(dom, key, p))
    /\ UNCHANGED <<dom, key, origin, util>>

EnsureSuffix(p) ==
    /\ Idle
    /\ last' = Call("ensure_suffix", p, key, ensure_suffix(dom, key, p))
    /\ UNCHANGED <<dom, key, origin, util>>

\* Serialising writes the text; it is what the next Deserialize reads.
Serialize ==
    /\ Idle
    /\ last' = [Call("serialize", <<>>, key, Ok(key)) EXCEPT !.text = serialize(key)]
    /\ UNCHANGED <<dom, key, origin, util>>

Deserialize(human_readable) ==
    /\ last.op = "serialize"
    /\ last' = Call(IF human_readable THEN "deserialize_hr" ELSE "deserialize_bin",
                    last.text, last.recv,
                    deserialize(dom, human_readable, last.text))
    /\ UNCHANGED <<dom, key, origin, util>>

Next ==
    \/ AtStart /\ \E s \in Inputs : New(s)
    \/ AtStart /\ \E s \in Inputs : FromString(s)
    \/ AtStart /\ \E parts \in Parts, delimiter \in Delimiters : FromParts(parts, delimiter)
    \/ AtStart /\ \E s \in Inputs : TryFromStatic(s)
    \/ AtStart /\ \E s \in Inputs : FromStaticUnchecked(s)
    \/ AtStart /\ \E s \in Inputs : ValidateKey(s)
    \/ Adopt
    \/ Discard
    \/ Clone
    \/ Idle /\ \E p \in Affixes : EnsurePrefix(p)
    \/ Idle /\ \E p \in Affixes : EnsureSuffix(p)
    \/ Serialize
    \/ \E human_readable \in BOOLEAN : Deserialize(human_readable)

Spec == Init /\ [][Next]_vars

\* The same program over the domains with a hook of the user's own.
HookInit ==
    /\ dom \in HookDomains
    /\ key = NoKey
    /\ origin = "none"
    /\ last = NoCall
    /\ util = NoUtil

HookSpec == HookInit /\ [][Next]_vars

\* Construction and derivation alone, with longer prefixes and suffixes:
\* new or try_from_static, then ensure_prefix / ensure_suffix on the keys
\* returned.
AffixNext ==
    \/ AtStart /\ \E s \in Inputs : New(s)
    \/ AtStart /\ \E s \in Inputs : TryFromStatic(s)
    \/ Adopt
    \/ Idle /\ \E p \in StringsUpTo(MaxLongAffixLen) : EnsurePrefix(p)
    \/ Idle /\ \E p \in StringsUpTo(MaxLongAffixLen) : EnsureSuffix(p)

AffixSpec == Init /\ [][AffixNext]_vars

\* The validation pipeline alone: one call of new, from_string or
\* validate_key on an input of up to MaxScanLen characters.
ScanInputs == StringsUpTo(MaxScanLen)

ScanInit ==
    /\ dom \in ScanDomains
    /\ key = NoKey
    /\ origin = "none"
    /\ last = NoCall
    /\ util = NoUtil

ScanNext ==
    \/ AtStart /\ \E s \in ScanInputs : New(s)
    \/ AtStart /\ \E s \in ScanInputs : FromString(s)
    \/ AtStart /\ \E s \in ScanInputs : ValidateKey(s)

ScanSpec == ScanInit /\ [][ScanNext]_vars

(***************************************************************************)
(* A program that works with one of the crate's utilities.  It starts with *)
(* none and makes one; every later step is a call on that object.          *)
(***************************************************************************)
UtilsInit ==
    /\ dom \in Domains
    /\ key = NoKey
    /\ origin = "none"
    /\ last = NoCall
    /\ util = NoUtil

\* The strings of the collections: the empty string, a string that
\* custom_check accepts and two that it refuses, one of them refused by
\* validate_key in every domain.
BatchItems == {<<>>, <<"a">>, <<"1">>, <<"-">>}

Collections == UNION {[1..n -> BatchItems] : n \in 0..MaxBatch}

\* A ValidationBuilder on which validate was not called yet.
Unvalidated(builder) ==
    [kind |-> "ValidationBuilder", builder |-> builder, called |-> FALSE,
     keys |-> <<>>,
     result |-> validate_loop(DefaultDomain, builder, <<>>, <<>>, <<>>, <<>>)]

\* The program holds a ValidationBuilder that it may still configure.
Configuring == util.kind = "ValidationBuilder" /\ ~util.called

\* ValidationBuilder::new
NewValidationBuilder ==
    /\ util = NoUtil
    /\ util' = Unvalidated(ValidationBuilder_new)
    /\ UNCHANGED <<dom, key, origin, last>>

\* ValidationBuilder::allow_empty_collection
AllowEmptyCollection(allow) ==
    /\ Configuring
    /\ util' = Unvalidated([util.builder EXCEPT !.allow_empty_collection = allow])
    /\ UNCHANGED <<dom, key, origin, last>>

\* ValidationBuilder::max_failures
MaxFailuresCall(max) ==
    /\ Configuring
    /\ util' = Unvalidated([util.builder EXCEPT !.max_failures = Some(max)])
    /\ UNCHANGED <<dom, key, origin, last>>

\* ValidationBuilder::stop_on_first_error
StopOnFirstError(stop) ==
    /\ Configuring
    /\ util' = Unvalidated([util.builder EXCEPT !.stop_on_first_error = stop])
    /\ UNCHANGED <<dom, key, origin, last>>

\* ValidationBuilder::custom_validator(custom_check)
CustomValidator ==
    /\ Configuring
    /\ util' = Unvalidated([util.builder EXCEPT !.custom_validator = TRUE])
    /\ UNCHANGED <<dom, key, origin, last>>

\* ValidationBuilder::validate, which borrows the builder
Validate(keys) ==
    /\ util.kind = "ValidationBuilder"
    /\ util' = [util EXCEPT !.called = TRUE, !.keys = keys,
                            !.result = validate(dom, util.builder, keys)]
    /\ UNCHANGED <<dom, key, origin, last>>

\* The replacer closures: each maps the characters of one set to one
\* character and every other character to None, as the closure of
\* tests::test_replace_chars maps '-' to '_'.
Replacers ==
    {[c \in Chars |-> IF c \in from THEN Some(to) ELSE NoneOf("")] :
        from \in SUBSET {"-", " ", "A"}, to \in {"_", "a"}}

\* A call of utils::replace_chars in a build with or without overflow checks
ReplaceChars(s, replacer, overflow_checks) ==
    /\ util = NoUtil
    /\ util' = [kind |-> "replace_chars", s |-> s, replacer |-> replacer,
                out |-> replace_chars(s, replacer, overflow_checks)]
    /\ UNCHANGED <<dom, key, origin, last>>

\* The characters of the strings given to PositionCache: a letter and two
\* delimiters, one of one byte and one of two.
CacheChars == {"a", "_", "U+00E9"}

\* PositionCache::new
NewPositionCache(s, delimiter) ==
    /\ util = NoUtil
    /\ util' = [kind |-> "PositionCache", self |-> PositionCache_new(s, delimiter),
                asked |-> FALSE, n |-> 0,
                part |-> [panicked |-> FALSE, some |-> FALSE, value |-> <<>>]]
    /\ UNCHANGED <<dom, key, origin, last>>

\* PositionCache::get_part
GetPart(n) ==
    /\ util.kind = "PositionCache"
    /\ util' = [util EXCEPT !.asked = TRUE, !.n = n, !.part = get_part(util.self, n)]
    /\ UNCHANGED <<dom, key, origin, last>>

\* The program holds an ErrorBuilder that it has not built yet.
Building == util.kind = "ErrorBuilder" /\ ~util.built

\* ErrorBuilder::new
NewErrorBuilder(category_) ==
    /\ util = NoUtil
    /\ util' = [kind |-> "ErrorBuilder", category |-> category_,
                code |-> NoneOf(0), message |-> <<>>, suggestions |-> <<>>,
                context |-> NoneOf(<<>>), built |-> FALSE, error |-> NoErr]
    /\ UNCHANGED <<dom, key, origin, last>>

\* ErrorBuilder::message
Message(message) ==
    /\ Building
    /\ util' = [util EXCEPT !.message = message]
    /\ UNCHANGED <<dom, key, origin, last>>

\* ErrorBuilder::code
Code(code_) ==
    /\ Building
    /\ util' = [util EXCEPT !.code = Some(code_)]
    /\ UNCHANGED <<dom, key, origin, last>>

\* ErrorBuilder::suggestion and ErrorBuilder::suggestions, which append
Suggestions(suggestions) ==
    /\ Building
    /\ Len(util.suggestions) + Len(suggestions) <= MaxSuggestions
    /\ util' = [util EXCEPT !.suggestions = @ \o suggestions]
    /\ UNCHANGED <<dom, key, origin, last>>

\* ErrorBuilder::context
Context(context) ==
    /\ Building
    /\ util' = [util EXCEPT !.context = Some(context)]
    /\ UNCHANGED <<dom, key, origin, last>>

\* ErrorBuilder::build, which consumes the builder
Build ==
    /\ Building
    /\ util' = [util EXCEPT !.built = TRUE, !.error = build(util)]
    /\ UNCHANGED <<dom, key, origin, last>>

UtilsNext ==
    \/ NewValidationBuilder
    \/ \E allow \in BOOLEAN : AllowEmptyCollection(allow)
    \/ \E max \in 0..MaxFailures : MaxFailuresCall(max)
    \/ \E stop \in BOOLEAN : StopOnFirstError(stop)
    \/ CustomValidator
    \/ \E keys \in Collections : Validate(keys)
    \/ \E s \in StringsUpTo(MaxReplaceLen), replacer \in Replacers,
          overflow_checks \in BOOLEAN : ReplaceChars(s, replacer, overflow_checks)
    \/ \E s \in UNION {[1..k -> CacheChars] : k \in 0..MaxCacheLen},
          delimiter \in CacheChars \ {"a"} : NewPositionCache(s, delimiter)
    \/ \E n \in 0..MaxPartIndex : GetPart(n)
    \/ \E category_ \in ErrorCategories : NewErrorBuilder(category_)
    \/ Message(<<"Test error">>)
    \/ \E code_ \in {42, 1234} : Code(code_)
    \/ \E n \in 1..MaxSuggestions :
          Suggestions([i \in 1..n |-> "Try something else"])
    \/ Context(<<"In test function">>)
    \/ Build

UtilsSpec == UtilsInit /\ [][UtilsNext]_vars

(***************************************************************************)
(* Properties.                                                             *)
(***************************************************************************)
\* The last call returned a key.
ReturnsKey == last.op \in Constructors \cup Derivations /\ last.res.ok

\* The last call is an ensure_prefix / ensure_suffix that returned a key.
Derived == last.op \in {"ensure_prefix", "ensure_suffix"} /\ last.res.ok

\* The string consists of whitespace only (the empty string included).
IsBlank(s) == \A i \in 1..Len(s) : is_whitespace(s[i])

\* utils::debug::validate_key_consistency
validate_key_consistency(k) ==
    /\ len(k) = StrLen(as_str(k))
    /\ hash(k) = compute_hash(as_str(k))

\* C1: every key obtained from a constructor, from clone or from a sequence
\* of ensure_prefix / ensure_suffix calls has len() equal to the byte length
\* of as_str() and hash() equal to compute_hash(as_str()).
C1_CacheConsistency ==
    /\ origin # "none" => validate_key_consistency(key)
    /\ ReturnsKey => validate_key_consistency(last.res.key)

\* C1 witness: an ensure_prefix call on a key of at least two characters
\* returned a longer key.
C1_Witness ==
    /\ last.op = "ensure_prefix"
    /\ last.res.ok
    /\ Len(last.recv.inner) >= 2
    /\ Len(last.res.key.inner) > Len(last.recv.inner)

\* C2: round trip: if new(s) returns Ok(k) then new(k.as_str()) returns
\* Ok(k') with k'.as_str() = k.as_str() and k'.hash() = k.hash().
C2_RoundTrip ==
    (last.op = "new" /\ last.res.ok) =>
        LET again == new(dom, as_str(last.res.key)) IN
        /\ again.ok
        /\ as_str(again.key) = as_str(last.res.key)
        /\ hash(again.key) = hash(last.res.key)

\* C3: if new(s) succeeds then every character of the key's text satisfies
\* the domain's allowed_characters.
C3_AllowedCharacters ==
    (last.op = "new" /\ last.res.ok) =>
        \A i \in 1..Len(as_str(last.res.key)) :
            allowed_characters(dom, as_str(last.res.key)[i])

\* C4: if new(s) succeeds then the first character of the key satisfies the
\* domain's allowed_start_character (with the default rules: it is none of
\* '_', '-', '.').
C4_StartCharacter ==
    (last.op = "new" /\ last.res.ok) =>
        /\ as_str(last.res.key) # <<>>
        /\ allowed_start_character(dom, Head(as_str(last.res.key)))

\* The last character satisfies allowed_end_character and every adjacent
\* pair satisfies allowed_consecutive_characters.
EndAndPairsAllowed(D, text) ==
    /\ text # <<>>
    /\ allowed_end_character(D, text[Len(text)])
    /\ \A i \in 2..Len(text) :
            allowed_consecutive_characters(D, text[i - 1], text[i])

\* C5: in DefaultDomain, the key returned by a successful ensure_prefix /
\* ensure_suffix call, at the end of any sequence of such calls on a key
\* created by new, has an allowed last character and only allowed adjacent
\* pairs of characters.
C5_DerivedStructure ==
    (dom = DefaultDomain /\ origin = "new" /\ Derived) =>
        EndAndPairsAllowed(dom, as_str(last.res.key))

\* min_length() <= len() <= MAX_LENGTH, and the key is not empty.
LengthInBounds(D, k) ==
    /\ as_str(k) # <<>>
    /\ min_length(D) <= len(k)
    /\ len(k) <= MAX_LENGTH(D)

\* C6: every key returned by new, from_string, from_parts, try_from_static,
\* ensure_prefix or ensure_suffix is non-empty and has
\* min_length() <= len() <= MAX_LENGTH.
C6_LengthBounds ==
    /\ (last.op \in {"new", "from_string", "from_parts", "try_from_static"}
        /\ last.res.ok) => LengthInBounds(dom, last.res.key)
    /\ (origin \in {"new", "from_string", "from_parts", "try_from_static"}
        /\ Derived) => LengthInBounds(dom, last.res.key)

\* C7: every key returned by new, from_string or from_parts, and every key
\* derived from such a key by a sequence of ensure_prefix / ensure_suffix
\* calls, is a fixed point of normalization.
C7_NormalizedFixedPoint ==
    /\ (last.op \in {"new", "from_string", "from_parts"} /\ last.res.ok) =>
            normalize(dom, as_str(last.res.key)) = as_str(last.res.key)
    /\ (origin \in {"new", "from_string", "from_parts"} /\ Derived) =>
            normalize(dom, as_str(last.res.key)) = as_str(last.res.key)

\* C8: from_string(s) and new(s) return the same result (the same error, or
\* keys with equal text), and ASCII uppercase letters of the input are
\* lowercased if and only if the domain is CASE_INSENSITIVE.
C8_FromStringIsNew ==
    last.op = "from_string" =>
        LET other == new(dom, last.input) IN
        /\ last.res.ok = other.ok
        /\ last.res.err = other.err
        /\ as_str(last.res.key) = as_str(other.key)
        /\ last.res.ok =>
              as_str(last.res.key) =
                 normalize_domain(dom,
                    IF CASE_INSENSITIVE(dom)
                    THEN to_ascii_lowercase(trim(last.input))
                    ELSE trim(last.input))

\* C9: serializing a key writes only its text, and deserializing that text,
\* through the human-readable or the binary path, yields a key equal to it.
C9_SerdeRoundTrip ==
    /\ last.op = "serialize" => last.text = as_str(last.recv)
    /\ last.op \in {"deserialize_hr", "deserialize_bin"} =>
            last.res.ok /\ last.res.key = last.recv

\* C10: new, from_string and validate_key applied to the empty string or to
\* a string made only of whitespace fail with KeyParseError::Empty.
C10_BlankIsEmpty ==
    (last.op \in {"new", "from_string", "validate_key"} /\ IsBlank(last.input)) =>
        ~last.res.ok /\ last.res.err = Empty

\* C10 witness: from_string was called with a string of two spaces.
C10_Witness == last.op = "from_string" /\ last.input = <<" ", " ">>

\* The separator characters of the default rules.
IsSeparator(c) == c = "_" \/ c = "-" \/ c = "."

\* The domain keeps the default character rules and has no validation hook.
DefaultRules(D) == D \in {DefaultDomain, ProductDomain, MinLengthDomain}

\* Exactly MAX_LENGTH allowed characters, the first and the last of which
\* are no separators.
BoundaryInput(D, s) ==
    /\ StrLen(s) = MAX_LENGTH(D)
    /\ \A i \in 1..Len(s) : allowed_characters(D, s[i])
    /\ ~IsSeparator(s[1])
    /\ ~IsSeparator(s[Len(s)])

\* No separator is followed by the same separator.
NoRepeatedSeparator(s) ==
    \A i \in 2..Len(s) : ~(s[i] = s[i - 1] /\ IsSeparator(s[i]))

\* A boundary input extended by one allowed character.
OverlongInput(D, s) ==
    /\ Len(s) = MAX_LENGTH(D) + 1
    /\ BoundaryInput(D, SubSeq(s, 1, MAX_LENGTH(D)))
    /\ allowed_characters(D, s[Len(s)])

\* C11 as stated: in a domain with the default character rules and no
\* custom validation, new accepts every input of exactly MAX_LENGTH allowed
\* characters that neither starts nor ends with a separator, and rejects
\* that input extended by one allowed character with
\* TooLong{MAX_LENGTH, MAX_LENGTH + 1}.
C11_MaxLengthBoundary_Stated ==
    (last.op = "new" /\ DefaultRules(dom)) =>
        /\ BoundaryInput(dom, last.input) => last.res.ok
        /\ OverlongInput(dom, last.input) =>
              /\ ~last.res.ok
              /\ last.res.err = TooLong(MAX_LENGTH(dom), MAX_LENGTH(dom) + 1)

\* C11 (amended): the same, for inputs in which no separator is followed by
\* the same separator.
C11_MaxLengthBoundary ==
    (last.op = "new" /\ DefaultRules(dom)) =>
        /\ (BoundaryInput(dom, last.input) /\ NoRepeatedSeparator(last.input))
              => last.res.ok
        /\ OverlongInput(dom, last.input) =>
              /\ ~last.res.ok
              /\ last.res.err = TooLong(MAX_LENGTH(dom), MAX_LENGTH(dom) + 1)

\* C11 witness: new accepted an input of exactly MAX_LENGTH characters that
\* contains two different separators next to each other.
C11_Witness ==
    /\ last.op = "new"
    /\ dom = ProductDomain
    /\ BoundaryInput(dom, last.input)
    /\ \E i \in 2..Len(last.input) :
          IsSeparator(last.input[i]) /\ IsSeparator(last.input[i - 1])
    /\ last.res.ok

\* The rules of the character scan, stated index by index.  The character
\* at index i breaks the character rule when neither the generic ASCII
\* check nor the domain's predicate for its place accepts it; it breaks the
\* adjacency rule when the domain rejects the pair it forms with the
\* character before it.
CharViolation(D, t, i) ==
    ~(is_ascii_allowed_fast(t[i])
      \/ (IF i = 1 THEN allowed_start_character(D, t[i])
                   ELSE allowed_characters(D, t[i])))

PairViolation(D, t, i) ==
    i >= 2 /\ ~allowed_consecutive_characters(D, t[i - 1], t[i])

ViolationIndices(D, t) ==
    {i \in 1..Len(t) : CharViolation(D, t, i) \/ PairViolation(D, t, i)}

EndViolation(D, t) == t # <<>> /\ ~allowed_end_character(D, t[Len(t)])

ScanFails(D, t) == ViolationIndices(D, t) # {} \/ EndViolation(D, t)

\* The trimmed text passes the empty and the two length checks.
InLengthBounds(D, t) ==
    t # <<>> /\ min_length(D) <= StrLen(t) /\ StrLen(t) <= MAX_LENGTH(D)

Lowest(S) == CHOOSE x \in S : \A y \in S : x <= y

\* C12: new checks in the order empty, too long, below the minimum length,
\* character scan, normalization, domain validation, and the first check
\* that fails decides the error: an over-long input yields TooLong whatever
\* characters it holds, and an input that fails a common check never yields
\* the error of validate_domain_rules.
C12_CheckOrder ==
    last.op = "new" =>
        LET t == trim(last.input)
            rules == validate_domain_rules(dom, normalize(dom, last.input))
        IN /\ t = <<>> => ~last.res.ok /\ last.res.err = Empty
           /\ (t # <<>> /\ StrLen(t) > MAX_LENGTH(dom)) =>
                 /\ ~last.res.ok
                 /\ last.res.err = TooLong(MAX_LENGTH(dom), StrLen(t))
           /\ (t # <<>> /\ StrLen(t) <= MAX_LENGTH(dom)
                        /\ StrLen(t) < min_length(dom)) =>
                 /\ ~last.res.ok
                 /\ last.res.err.kind = "TooLong"
                 /\ last.res.err.actual_length = StrLen(t)
           /\ (InLengthBounds(dom, t) /\ ScanFails(dom, t)) =>
                 /\ ~last.res.ok
                 /\ last.res.err.kind \in {"InvalidCharacter", "InvalidStructure"}
           /\ (InLengthBounds(dom, t) /\ ~ScanFails(dom, t) /\ ~rules.ok) =>
                 /\ ~last.res.ok
                 /\ last.res.err.kind = rules.err.kind
                 /\ last.res.err.message = rules.err.message
           /\ (InLengthBounds(dom, t) /\ ~ScanFails(dom, t) /\ rules.ok) =>
                 last.res.ok

\* C12 witness: new was given an over-long input that holds a space inside
\* and does not start the way the domain's hook requires.
C12_Witness ==
    /\ last.op = "new"
    /\ dom = TenantDomain
    /\ StrLen(trim(last.input)) > MAX_LENGTH(dom)
    /\ contains_char(trim(last.input), " ")
    /\ ~starts_with(trim(last.input), TenantPrefix)

\* C13: in new the character and structure checks see the trimmed input
\* before normalization and validate_domain_rules sees the normalized text:
\* an input holding a character that the domain's allowed_characters
\* rejects is refused, with InvalidCharacter when no adjacency violation
\* comes before that character, even if normalize_domain would have
\* replaced it; an input that fails the scan is refused even if its
\* normalized text would pass; and an input that passes the scan is
\* accepted exactly when the hook accepts its normalized text, so that a
\* rule that holds only after case-folding accepts the upper-case input.
C13_ChecksBeforeNormalization ==
    (last.op = "new" /\ InLengthBounds(dom, trim(last.input))) =>
        LET t == trim(last.input)
            rejected == {i \in 1..Len(t) : ~allowed_characters(dom, t[i])}
        IN /\ rejected # {} =>
                 /\ ~last.res.ok
                 /\ (\A j \in 1..Lowest(rejected) : ~PairViolation(dom, t, j))
                       => last.res.err.kind = "InvalidCharacter"
           /\ ScanFails(dom, t) => ~last.res.ok
           /\ ~ScanFails(dom, t) =>
                 (last.res.ok <=>
                    validate_domain_rules(dom, normalize(dom, last.input)).ok)

\* The inputs "Gaming Laptop" and "Gaming-Laptop" and the text
\* "gaming_laptop", scaled to one upper-case letter, the space or hyphen,
\* and one lower-case letter.
GamingLaptop == <<"A", " ", "a">>
GamingHyphenLaptop == <<"A", "-", "a">>
gaming_laptop == <<"a", "_", "a">>

\* C14 as stated: in ProductDomain, new("Gaming Laptop") succeeds and the
\* key's text is "gaming_laptop".
C14_GamingLaptop_Stated ==
    (dom = ProductDomain /\ last.op = "new" /\ last.input = GamingLaptop) =>
        last.res.ok /\ as_str(last.res.key) = gaming_laptop

\* C14 (amended): in ProductDomain, new("Gaming Laptop") is refused with
\* InvalidCharacter naming the space and its offset, and
\* new("Gaming-Laptop") succeeds with the text "gaming_laptop".
C14_GamingLaptop ==
    (dom = ProductDomain /\ last.op = "new") =>
        /\ last.input = GamingLaptop =>
              ~last.res.ok /\ last.res.err = InvalidCharacter(" ", 1)
        /\ last.input = GamingHyphenLaptop =>
              last.res.ok /\ as_str(last.res.key) = gaming_laptop

\* C14 witness: new("Gaming-Laptop") was called in ProductDomain.
C14_Witness ==
    dom = ProductDomain /\ last.op = "new" /\ last.input = GamingHyphenLaptop

\* The text that the last call handed to validate_domain_rules.
HookText ==
    CASE last.op = "new" -> normalize(dom, last.input)
      [] last.op = "from_string" -> normalize_owned(dom, last.input)
      [] last.op = "ensure_prefix" -> last.input \o as_str(last.recv)
      [] last.op = "ensure_suffix" -> as_str(last.recv) \o last.input
      [] OTHER -> <<>>

\* C15: when new, from_string, ensure_prefix or ensure_suffix fails with an
\* error that comes from validate_domain_rules, a DomainValidation error
\* carries T::DOMAIN_NAME as its domain, whatever name the hook supplied,
\* and the hook's message; an error of another variant is the hook's error
\* unchanged.
C15_DomainErrorName ==
    (/\ last.op \in {"new", "from_string", "ensure_prefix", "ensure_suffix"}
     /\ ~last.res.ok
     /\ last.res.err.kind \in {"DomainValidation", "Custom"}) =>
        LET rules == validate_domain_rules(dom, HookText) IN
        /\ ~rules.ok
        /\ rules.err.kind = "DomainValidation" =>
              /\ last.res.err.kind = "DomainValidation"
              /\ last.res.err.domain = DOMAIN_NAME(dom)
              /\ last.res.err.message = rules.err.message
        /\ rules.err.kind # "DomainValidation" => last.res.err = rules.err

\* C15 witness: ensure_prefix failed on the error of a hook that named the
\* domain "unknown".
C15_Witness ==
    /\ last.op = "ensure_prefix"
    /\ ~last.res.ok
    /\ last.res.err.kind = "DomainValidation"
    /\ validate_domain_rules(dom, HookText).err.domain = "unknown"

\* Some part of the sequence is the empty string.
HasEmptyPart(parts) == \E i \in 1..Len(parts) : parts[i] = <<>>

\* C16 as stated: from_parts rejects an empty sequence of parts, and a
\* sequence holding an empty part, before joining, in both cases with
\* KeyParseError::InvalidStructure.
C16_FromPartsRejects_Stated ==
    (last.op = "from_parts" /\ (last.parts = <<>> \/ HasEmptyPart(last.parts))) =>
        ~last.res.ok /\ last.res.err.kind = "InvalidStructure"

\* C16 (amended): from_parts rejects an empty sequence of parts with
\* KeyParseError::Empty and a sequence holding an empty part with
\* KeyParseError::InvalidStructure, both before joining: whatever the other
\* parts and the delimiter are.
C16_FromPartsRejects ==
    last.op = "from_parts" =>
        /\ last.parts = <<>> => ~last.res.ok /\ last.res.err = Empty
        /\ HasEmptyPart(last.parts) =>
              /\ ~last.res.ok
              /\ last.res.err = InvalidStructure("Parts cannot contain empty strings")

\* C16 witness: from_parts was given an empty part next to a part that is a
\* valid key of its own.
C16_Witness ==
    /\ last.op = "from_parts"
    /\ HasEmptyPart(last.parts)
    /\ from_string(dom, join(last.parts, last.delimiter)).ok

\* The keys that the constructors return for the input s.
ConstructedFrom(D, s) ==
    {r.key : r \in {x \in {new(D, s), from_string(D, s), try_from_static(D, s),
                            from_parts(D, <<s>>, <<>>),
                            IF validate_key(D, s).ok
                            THEN Ok(from_static_unchecked(s))
                            ELSE Err(Empty)} : x.ok}}

\* a == b exactly when the texts are equal, and equal texts have equal
\* hash() and write the same value to a Hasher.
EqualityIsText(a, b) ==
    /\ eq(a, b) <=> (as_str(a) = as_str(b))
    /\ as_str(a) = as_str(b) =>
          hash(a) = hash(b) /\ hash_write(a) = hash_write(b)

\* C17: for two keys of one domain, however each was obtained, a == b if
\* and only if a.as_str() == b.as_str(), and equal text implies equal
\* hash() and the same value written to a Hasher.  The pairs are the key the
\* program holds with the key its last call returned (a clone, a derived or
\* a deserialised key), and the held key with every key a constructor
\* returns for an input of at most one character.
C17_EqualityIsText ==
    /\ (origin # "none" /\ last.res.ok
        /\ last.op \in Derivations \cup {"deserialize_hr", "deserialize_bin"}) =>
            EqualityIsText(key, last.res.key)
    /\ Idle => \A s \in Short : \A b \in ConstructedFrom(dom, s) :
                    EqualityIsText(key, b)

\* C17 witness: the program holds a key made by try_from_static whose text
\* a constructor also returns for a different input.
C17_Witness ==
    /\ Idle
    /\ origin = "try_from_static"
    /\ \E s \in Short : \E b \in ConstructedFrom(dom, s) :
            as_str(b) = as_str(key) /\ s # as_str(key)

\* C18: if k.ensure_prefix(p) returns Ok(k1) then k1.ensure_prefix(p)
\* returns Ok(k2) with k2 equal to k1 in text, hash and length; the same
\* holds for ensure_suffix.
C18_EnsureIdempotent ==
    /\ (last.op = "ensure_prefix" /\ last.res.ok) =>
          LET again == ensure_prefix(dom, last.res.key, last.input) IN
          /\ again.ok
          /\ as_str(again.key) = as_str(last.res.key)
          /\ hash(again.key) = hash(last.res.key)
          /\ len(again.key) = len(last.res.key)
    /\ (last.op = "ensure_suffix" /\ last.res.ok) =>
          LET again == ensure_suffix(dom, last.res.key, last.input) IN
          /\ again.ok
          /\ as_str(again.key) = as_str(last.res.key)
          /\ hash(again.key) = hash(last.res.key)
          /\ len(again.key) = len(last.res.key)

\* C18 witness: ensure_prefix added a prefix to a key that fills MAX_LENGTH
\* with it, so that adding it once more would be too long.
C18_Witness ==
    /\ last.op = "ensure_prefix"
    /\ last.res.ok
    /\ last.input # <<>>
    /\ ~starts_with(as_str(last.recv), last.input)
    /\ len(last.res.key) = MAX_LENGTH(dom)

\* C19: whenever new, from_string or validate_key returns TooLong, its
\* max_length is the domain's MAX_LENGTH and its actual_length, the trimmed
\* input's length, is greater; a non-blank input shorter than min_length()
\* is rejected with an error that is not TooLong.
C19_TooLongFields ==
    last.op \in {"new", "from_string", "validate_key"} =>
        LET t == trim(last.input) IN
        /\ (~last.res.ok /\ last.res.err.kind = "TooLong") =>
              /\ last.res.err.max_length = MAX_LENGTH(dom)
              /\ last.res.err.actual_length = StrLen(t)
              /\ last.res.err.actual_length > last.res.err.max_length
        /\ (t # <<>> /\ StrLen(t) < min_length(dom)) =>
              ~last.res.ok /\ last.res.err.kind # "TooLong"

CustomHookCode == validate_domain_rules(CustomHookDomain, <<>>).err.code

\* C21: for the error returned by a failing new, from_string or
\* validate_key, code() is 1001 for Empty, 1002 for InvalidCharacter, 1003
\* for TooLong, 1004 for InvalidStructure, 2000 for DomainValidation and the
\* code its maker supplied for Custom; category() is one of the five
\* categories: Length for Empty and TooLong, Character, Structure, Domain
\* and Custom for the other variants in turn; is_recoverable() is false
\* exactly for Custom.
C21_CodesAndCategories ==
    (last.op \in {"new", "from_string", "validate_key"} /\ ~last.res.ok) =>
        LET e == last.res.err IN
        /\ e.kind = "Empty" => code(e) = 1001 /\ category(e) = "Length"
        /\ e.kind = "InvalidCharacter" =>
              code(e) = 1002 /\ category(e) = "Character"
        /\ e.kind = "TooLong" => code(e) = 1003 /\ category(e) = "Length"
        /\ e.kind = "InvalidStructure" =>
              code(e) = 1004 /\ category(e) = "Structure"
        /\ e.kind = "DomainValidation" =>
              code(e) = 2000 /\ category(e) = "Domain"
        /\ e.kind = "Custom" =>
              code(e) = CustomHookCode /\ category(e) = "Custom"
        /\ category(e) \in ErrorCategories
        /\ is_recoverable(e) <=> (e.kind # "Custom")

\* C21 witness: new failed with the Custom error of a domain's hook.
C21_Witness ==
    /\ last.op = "new"
    /\ ~last.res.ok
    /\ last.res.err.kind = "Custom"
    /\ dom = CustomHookDomain

\* C22: whenever try_from_static(s) succeeds, the key it returns equals the
\* key returned by new(s): the same text, hash and length, also for inputs
\* with surrounding whitespace or upper-case letters.
C22_TryFromStaticIsNew ==
    (last.op = "try_from_static" /\ last.res.ok) =>
        LET other == new(dom, last.input) IN
        /\ other.ok
        /\ as_str(last.res.key) = as_str(other.key)
        /\ hash(last.res.key) = hash(other.key)
        /\ len(last.res.key) = len(other.key)

\* C23: validate_key(s) is Ok exactly when new(s) is Ok, and when both fail
\* they return the same error value.
C23_ValidateKeyIsNew ==
    last.op = "validate_key" =>
        LET other == new(dom, last.input) IN
        /\ last.res.ok <=> other.ok
        /\ ~last.res.ok => last.res.err = other.err

\* The outcome that the ordered checks (combined length, added characters,
\* domain validation of the whole new string) give for a key k, an added
\* substring of which the key has no copy yet, and the new string text.
OrderedChecks(D, k, added, text, res) ==
    LET new_len == StrLen(added) + len(k)
        rejected == {i \in 1..Len(added) : ~allowed_characters(D, added[i])}
        rules == validate_domain_rules(D, text)
    IN /\ new_len > MAX_LENGTH(D) =>
             ~res.ok /\ res.err = TooLong(MAX_LENGTH(D), new_len)
       /\ (new_len <= MAX_LENGTH(D) /\ rejected # {}) =>
             /\ ~res.ok
             /\ res.err.kind = "InvalidCharacter"
             /\ res.err.character = added[Lowest(rejected)]
       /\ (new_len <= MAX_LENGTH(D) /\ rejected = {} /\ ~rules.ok) =>
             ~res.ok /\ res.err = fix_domain_error(D, rules.err)
       /\ (new_len <= MAX_LENGTH(D) /\ rejected = {} /\ rules.ok) =>
             res.ok /\ as_str(res.key) = text

\* C24: when the key does not already start with the prefix (end with the
\* suffix), ensure_prefix / ensure_suffix check the combined length, then
\* the characters of the added substring, then the domain's rules on the
\* whole new string, and the first failing check decides the error:
\* TooLong{MAX_LENGTH, len(added) + len(key)} whatever the added characters
\* are, otherwise InvalidCharacter for the first added character that
\* allowed_characters rejects, otherwise the domain's error; the call
\* succeeds otherwise, whatever the characters of the original key are.
C24_EnsureCheckOrder ==
    /\ (last.op = "ensure_prefix"
        /\ ~starts_with(as_str(last.recv), last.input)) =>
            OrderedChecks(dom, last.recv, last.input,
                          last.input \o as_str(last.recv), last.res)
    /\ (last.op = "ensure_suffix"
        /\ ~ends_with(as_str(last.recv), last.input)) =>
            OrderedChecks(dom, last.recv, last.input,
                          as_str(last.recv) \o last.input, last.res)

\* C24 witness: ensure_prefix was given two different characters that
\* allowed_characters rejects, to add to a key that has room for them.
C24_Witness ==
    /\ last.op = "ensure_prefix"
    /\ Len(last.input) = 2
    /\ last.input[1] # last.input[2]
    /\ ~allowed_characters(dom, last.input[1])
    /\ ~allowed_characters(dom, last.input[2])
    /\ StrLen(last.input) + len(last.recv) <= MAX_LENGTH(dom)

\* The program holds the result of a call of ValidationBuilder::validate.
Validated == util.kind = "ValidationBuilder" /\ util.called

\* C25: for every configuration of a ValidationBuilder and every collection,
\* the empty one included, the result of validate has total_processed equal
\* to valid.len() + errors.len(), and total_processed is the number of items
\* examined before stopping.
C25_TotalProcessed ==
    Validated =>
        /\ util.result.total_processed =
              Len(util.result.valid) + Len(util.result.errors)
        /\ util.result.total_processed = Len(util.result.examined)

\* C26: with max_failures(m) every result of validate has error_count() <= m,
\* the examined items are a prefix of the input in input order, and no item
\* after the one that produced the m-th error is examined; with
\* stop_on_first_error(true) no item after the first failing one is
\* examined.
C26_FailureLimits ==
    Validated =>
        LET self == util.builder
            result == util.result
            n == Len(result.examined)
        IN /\ self.max_failures.some =>
                 Len(result.errors) <= self.max_failures.value
           /\ n <= Len(util.keys)
           /\ result.examined = SubSeq(util.keys, 1, n)
           /\ (self.max_failures.some /\ n > 0
                /\ Len(result.errors) >= self.max_failures.value) =>
                 /\ result.errors[Len(result.errors)][1] = util.keys[n]
                 /\ ~validate_item(dom, self, util.keys[n]).ok
           /\ (self.stop_on_first_error /\ result.errors # <<>> /\ n > 0) =>
                 /\ Len(result.errors) = 1
                 /\ ~validate_item(dom, self, util.keys[n]).ok

\* C27: pre-validated strings always convert: in every domain, a
\* case-sensitive domain whose validate_domain_rules depends on the case
\* included, if validate_key(s) is Ok then from_string(s) is Ok (so that the
\* expect of quick_convert and the collect of into_keys never meet an Err).
C27_ValidatedConverts ==
    (last.op = "validate_key" /\ last.res.ok) => from_string(dom, last.input).ok

\* C28: for every string s and replacer f, replace_chars(s, f) returns s
\* with every character c for which f(c) = Some(r) replaced by r and every
\* other character in place, returns s itself, borrowed, when f replaces
\* no character, and never panics.
C28_ReplaceChars ==
    util.kind = "replace_chars" =>
        /\ ~util.out.panicked
        /\ util.out.value =
              [i \in 1..Len(util.s) |->
                  IF util.replacer[util.s[i]].some
                  THEN util.replacer[util.s[i]].value
                  ELSE util.s[i]]
        /\ (\A i \in 1..Len(util.s) : ~util.replacer[util.s[i]].some) =>
              ~util.out.owned

\* C29: for every string s, delimiter d and index n,
\* PositionCache::new(s, d).get_part(n) is the n-th element of s.split(d)
\* when n < part_count() and None otherwise, where part_count() is the
\* number of occurrences of d in s plus one and positions() lists the byte
\* offsets of d in increasing order.
C29_PositionCache ==
    util.kind = "PositionCache" =>
        LET s == util.self.cached_for
            d == util.self.delimiter
            positions == util.self.positions
            offsets == {StrLen(SubSeq(s, 1, i - 1)) : i \in {j \in 1..Len(s) : s[j] = d}}
        IN /\ part_count(util.self) = Cardinality({j \in 1..Len(s) : s[j] = d}) + 1
           /\ {positions[k] : k \in 1..Len(positions)} = offsets
           /\ \A k \in 2..Len(positions) : positions[k - 1] < positions[k]
           /\ util.asked =>
                 /\ ~util.part.panicked
                 /\ util.n < part_count(util.self) =>
                        util.part.some /\ util.part.value = split(s, d)[util.n + 1]
                 /\ util.n >= part_count(util.self) => ~util.part.some

\* C30: an error built with ErrorBuilder::new(category) has category() equal
\* to the category passed to new, and code() equal to the code set with
\* code(..), for every category and whether or not a code, a context or a
\* suggestion was set.
C30_ErrorBuilder ==
    (util.kind = "ErrorBuilder" /\ util.built) =>
        /\ category(util.error) = util.category
        /\ util.code.some => code(util.error) = util.code.value

=============================================================================
